---- MODULE Spec2Model ----
(***************************************************************************)
(* A model of the DDPG portfolio agent (ddpgportfolio/agent/ddpg_agent.py) *)
(* and of its utilities (utilities/pg_utils.py).                           *)
(*                                                                         *)
(* Real numbers are exact rationals <<n, d>> with d > 0, in lowest terms.  *)
(* exp(-epsilon_decay_rate * k) is computed for the configuration          *)
(* epsilon_decay_rate = ln 10, for which it is the rational 1 / 10^k;      *)
(* softmax is computed in base 2 for the same reason.                      *)
(***************************************************************************)
EXTENDS Integers, Sequences, FiniteSets, TLC

VARIABLES
    episode_count,   \* DDPGAgent.episode_count
    epsilon,         \* DDPGAgent.epsilon
    warmup_steps,    \* DDPGAgent.warmup_steps (a constructor argument)
    ou_noise,        \* DDPGAgent.ou_noise: [mu, theta, sigma, size, state]
    last,            \* outcome of the last select_action / update_epsilon / train_actor call
    hybrid_steps,    \* number of select_action calls that took the hybrid warmup branch
    noise_samples,   \* number of OrnsteinUhlenbeckNoise.sample calls made so far
    target_network,  \* soft_update's target_network.parameters()
    main_network,    \* soft_update's main_network.parameters()
    soft_last,       \* the last soft_update call: its tau and the parameters before it
    networks,        \* the network attributes the agent has: name -> parameters
    normalizer,      \* a RewardNormalizer: [mean, M2, count]
    observations,    \* the rewards given to RewardNormalizer.update so far
    norm_last,       \* outcome of the last RewardNormalizer call
    batch_size,      \* DDPGAgent.batch_size (a constructor argument)
    n_samples,       \* len(KrakenDataSet(...)): the length of the dataset
    window_size,     \* DDPGAgent.window_size (a constructor argument)
    pvm,             \* DDPGAgent.pvm: [capacity, written]
    ds_checks_index, \* whether the dataset raises IndexError outside 0 .. n_samples - 1
    replay_memory,   \* DDPGAgent.replay_memory: [buffer, td_updated]
    pre_last,        \* outcome of the last pre_train call
    train_last,      \* outcome of the last train call
    pre_train_calls, \* number of pre_train calls made so far
    warm_last,       \* outcome of the last warm_up_critic call
    critic,          \* DDPGAgent.critic and critic_optimizer: [parameters, step_count, lr_steps]
    critic_last      \* outcome of the last train_critic call

exploreVars == <<episode_count, epsilon, warmup_steps, ou_noise, last,
                 hybrid_steps, noise_samples>>
softVars == <<target_network, main_network, soft_last, networks>>
normVars == <<normalizer, observations, norm_last>>
trainVars == <<batch_size, n_samples, window_size, pvm, ds_checks_index,
               replay_memory, pre_last, train_last, pre_train_calls, warm_last>>

learnVars == <<critic, critic_last>>

vars == <<exploreVars, softVars, normVars, trainVars, learnVars>>

-----------------------------------------------------------------------------
(* Exact rational arithmetic standing for the code's float arithmetic.     *)

Abs(x) == IF x < 0 THEN -x ELSE x

RECURSIVE GCD(_, _)
GCD(a, b) == IF b = 0 THEN a ELSE GCD(b, a % b)

Rat(n, d) ==
    LET g == GCD(Abs(n), Abs(d))
        s == IF d < 0 THEN -1 ELSE 1
    IN  <<(s * n) \div g, (s * d) \div g>>

RatAdd(a, b) == Rat(a[1] * b[2] + b[1] * a[2], a[2] * b[2])
RatSub(a, b) == Rat(a[1] * b[2] - b[1] * a[2], a[2] * b[2])
RatMul(a, b) == Rat(a[1] * b[1], a[2] * b[2])
RatDiv(a, b) == Rat(a[1] * b[2], a[2] * b[1])
RatLt(a, b) == a[1] * b[2] < b[1] * a[2]
RatLe(a, b) == a[1] * b[2] <= b[1] * a[2]
RatMax(a, b) == IF RatLt(a, b) THEN b ELSE a
RatInt(n) == <<n, 1>>
Zero == <<0, 1>>
One == <<1, 1>>
Half == <<1, 2>>

RECURSIVE RatSum(_)
RatSum(s) == IF s = <<>> THEN Zero ELSE RatAdd(Head(s), RatSum(Tail(s)))

RECURSIVE Pow(_, _)
Pow(b, k) == IF k = 0 THEN 1 ELSE b * Pow(b, k - 1)

-----------------------------------------------------------------------------
(* Configuration of the agent and bounds of the model.                     *)

M_assets == 3                         \* portfolio.m_assets: cash + 2 assets
M_noncash_assets == M_assets - 1      \* portfolio.m_noncash_assets

epsilon_max == One                    \* DDPGAgent.epsilon_max = 1.0
epsilon_min == <<1, 100>>             \* DDPGAgent.epsilon_min = 0.01

MaxWarmup == 2          \* warmup_steps is drawn from 1 .. MaxWarmup
MaxEpisodeCount == 5    \* calls that advance episode_count stop here
MaxDraw == 1            \* a uniform(0, 1) draw is k / (MaxDraw + 1), k in 0 .. MaxDraw
MaxLogit == 1           \* the logits of the policy network are in 0 .. MaxLogit
MaxNoiseSamples == 1    \* select_action calls OrnsteinUhlenbeckNoise.sample at most this often

\* np.random.uniform(0, 1, size = m): m draws k / (MaxDraw + 1).  The draw with
\* every component exactly 0.0 has probability zero and is left out.
UniformDraws(m) ==
    {u \in [1 .. m -> 0 .. MaxDraw] : \E i \in 1 .. m : u[i] > 0}

\* np.random.rand(): a point of [0, 1)
RandDraws == {Zero, <<9, 10>>}

\* np.random.randn(size): standard normal draws, a few representative vectors
NoiseDraws(size) ==
    {[i \in 1 .. size |-> RatInt(1)],
     [i \in 1 .. size |-> RatInt(IF i = 1 THEN -1 ELSE 0)]}

\* Length of the logits of Actor(3, m_noncash_assets).  The network's contract
\* gives m_noncash_assets; the agent's own use of the logits (noise of size
\* m_assets added to them, the first softmax component dropped as the cash
\* weight) fits m_assets.  Both networks are modelled.
ActorOutLens == {M_noncash_assets, M_assets}

\* self.actor(state): logits of the opaque policy network, n of them: all
\* equal, or one of them raised above the others by up to MaxLogit
LogitDraws(n) ==
    {[i \in 1 .. n |-> IF i = j THEN v ELSE 0] : j \in 1 .. n, v \in 0 .. MaxLogit}

ActionTypes == {"greedy", "hybrid", "ou"}

\* The calls of select_action: exploration off (action_type is then never
\* read, so it keeps its default), or exploration on with each action_type.
Calls ==
    {[exploration |-> FALSE, action_type |-> "greedy"]}
    \cup {[exploration |-> TRUE, action_type |-> t] : t \in ActionTypes}

-----------------------------------------------------------------------------
(* OrnsteinUhlenbeckNoise                                                  *)

OUInit(size, theta, sigma) ==
    [mu |-> Zero, theta |-> theta, sigma |-> sigma, size |-> size,
     state |-> [i \in 1 .. size |-> Zero]]

OUReset(ou) == [ou EXCEPT !.state = [i \in 1 .. ou.size |-> ou.mu]]

\* x = state; dx = theta * (mu - x) + sigma * randn(size); state = x + dx
OUSample(ou, z) ==
    [ou EXCEPT !.state =
        [i \in 1 .. ou.size |->
            RatAdd(ou.state[i],
                   RatAdd(RatMul(ou.theta, RatSub(ou.mu, ou.state[i])),
                          RatMul(ou.sigma, z[i])))]]

\* the methods the class OrnsteinUhlenbeckNoise defines
OUMethods == {"__init__", "reset", "sample"}

-----------------------------------------------------------------------------
(* Action selection                                                        *)

\* uniform_vec / np.max(uniform_vec): scaled by the largest draw, not by the sum
select_uniform_action_by_max(u) ==
    LET largest == CHOOSE m \in {u[i] : i \in 1 .. Len(u)} :
                       \A j \in 1 .. Len(u) : u[j] <= m
    IN  [i \in 1 .. Len(u) |-> Rat(u[i], largest)]

\* uniform_vec / np.sum(uniform_vec)
select_uniform_action(u) ==
    LET total == RatSum([i \in 1 .. Len(u) |-> RatInt(u[i])])
    IN  [i \in 1 .. Len(u) |-> RatDiv(RatInt(u[i]), total)]

\* torch.softmax(logits, dim = -1), in base 2
softmax(logits) ==
    LET w == [i \in 1 .. Len(logits) |-> RatInt(Pow(2, logits[i]))]
        total == RatSum(w)
    IN  [i \in 1 .. Len(w) |-> RatDiv(w[i], total)]

\* the methods the class DDPGAgent defines
AgentMethods ==
    {"select_uniform_action", "select_action", "update_epsilon",
     "update_target_networks", "soft_update", "train_actor",
     "_normalize_batch_rewards", "train_critic", "warm_up_critic",
     "pre_train", "train"}

\* self.<name>(...): the call succeeds only if the class defines the method
HasMethod(methods, name) == name \in methods

\* np.exp(-epsilon_decay_rate * k) for epsilon_decay_rate = ln 10
ExpDecay(k) == Rat(1, Pow(10, k))

\* update_epsilon without the floor max(epsilon_min, ...)
update_epsilon_no_floor(self) ==
    LET eps ==
          IF self.episode_count < self.warmup_steps
          THEN RatSub(epsilon_max,
                      RatMul(RatDiv(RatSub(epsilon_max, Half),
                                    RatInt(self.warmup_steps)),
                             RatInt(self.episode_count)))
          ELSE RatMul(self.epsilon,
                      ExpDecay(self.episode_count - self.warmup_steps))
    IN  [self EXCEPT !.epsilon = eps, !.episode_count = self.episode_count + 1]

\* update_epsilon with the linear decay taken at the incremented counter
update_epsilon_next_count(self) ==
    LET eps ==
          IF self.episode_count < self.warmup_steps
          THEN RatSub(epsilon_max,
                      RatMul(RatDiv(RatSub(epsilon_max, Half),
                                    RatInt(self.warmup_steps)),
                             RatInt(self.episode_count + 1)))
          ELSE RatMax(epsilon_min,
                      RatMul(self.epsilon,
                             ExpDecay(self.episode_count - self.warmup_steps)))
    IN  [self EXCEPT !.epsilon = eps, !.episode_count = self.episode_count + 1]

\* update_epsilon, on the exploration state self = [episode_count, epsilon, ...]
update_epsilon(self) ==
    LET eps ==
          IF self.episode_count < self.warmup_steps
          THEN RatSub(epsilon_max,
                      RatMul(RatDiv(RatSub(epsilon_max, Half),
                                    RatInt(self.warmup_steps)),
                             RatInt(self.episode_count)))
          ELSE RatMax(epsilon_min,
                      RatMul(self.epsilon,
                             ExpDecay(self.episode_count - self.warmup_steps)))
    IN  [self EXCEPT !.epsilon = eps, !.episode_count = self.episode_count + 1]

Self ==
    [episode_count |-> episode_count, epsilon |-> epsilon,
     warmup_steps |-> warmup_steps, ou_noise |-> ou_noise]

Ok(self, path, action, samples) ==
    [self |-> self, path |-> path, status |-> "ok", err |-> "",
     action |-> action, samples |-> samples]

Raise(self, path, err, samples) ==
    [self |-> self, path |-> path, status |-> "error", err |-> err,
     action |-> <<>>, samples |-> samples]

\* select_action with the warmup test episode_count <= warmup_steps
select_action_warmup_inclusive(self, exploration, action_type, logits, u, r, z) ==
    IF exploration /\ action_type = "hybrid"
       /\ self.episode_count <= self.warmup_steps
    THEN Ok([self EXCEPT !.episode_count = self.episode_count + 1],
            "uniform", Tail(select_uniform_action(u)), 0)
    ELSE IF exploration /\ action_type \in {"hybrid", "ou"}
    THEN LET sampled == [self EXCEPT !.ou_noise = OUSample(self.ou_noise, z)]
         IN  IF Len(logits) # self.ou_noise.size
             THEN Raise(sampled, "noise", "RuntimeError", 1)
             ELSE IF ~HasMethod(OUMethods, "decay_sigma")
             THEN Raise(sampled, "noise", "AttributeError", 1)
             ELSE Ok(sampled, "noise", Tail(softmax(logits)), 1)
    ELSE IF exploration /\ action_type = "greedy" /\ RatLt(r, self.epsilon)
    THEN IF ~HasMethod(AgentMethods, "get_uniform_action")
         THEN Raise(self, "greedy_random", "AttributeError", 0)
         ELSE Ok(update_epsilon(self), "greedy_random",
                 Tail(select_uniform_action(u)), 0)
    ELSE Ok(self, IF exploration /\ action_type = "greedy"
                  THEN "greedy_deterministic" ELSE "deterministic",
            Tail(softmax(logits)), 0)

\* select_action(state, exploration, action_type) with the values drawn in the call:
\* logits = self.actor(state), u = the uniform draw, r = np.random.rand(),
\* z = np.random.randn(size).  Returns the new exploration state and the outcome.
select_action(self, exploration, action_type, logits, u, r, z) ==
    IF exploration /\ action_type = "hybrid"
       /\ self.episode_count < self.warmup_steps
    THEN Ok([self EXCEPT !.episode_count = self.episode_count + 1],
            "uniform", Tail(select_uniform_action(u)), 0)
    ELSE IF exploration /\ action_type \in {"hybrid", "ou"}
    THEN LET sampled == [self EXCEPT !.ou_noise = OUSample(self.ou_noise, z)]
         IN  IF Len(logits) # self.ou_noise.size
             THEN Raise(sampled, "noise", "RuntimeError", 1)
             ELSE IF ~HasMethod(OUMethods, "decay_sigma")
             THEN Raise(sampled, "noise", "AttributeError", 1)
             ELSE Ok(sampled, "noise", Tail(softmax(logits)), 1)
    ELSE IF exploration /\ action_type = "greedy" /\ RatLt(r, self.epsilon)
    THEN IF ~HasMethod(AgentMethods, "get_uniform_action")
         THEN Raise(self, "greedy_random", "AttributeError", 0)
         ELSE Ok(update_epsilon(self), "greedy_random",
                 Tail(select_uniform_action(u)), 0)
    ELSE Ok(self, IF exploration /\ action_type = "greedy"
                  THEN "greedy_deterministic" ELSE "deterministic",
            Tail(softmax(logits)), 0)

\* train_actor: predicted_actions = softmax(logits, dim = 1); one optimizer
\* step on the loss -mean(critic(state, predicted_actions)) * is_weights (the
\* value estimator is opaque); returns predicted_actions[:, 1:].
train_actor(logits) ==
    LET predicted_actions == [k \in 1 .. Len(logits) |-> softmax(logits[k])]
    IN  [actions |-> [k \in 1 .. Len(logits) |-> Tail(predicted_actions[k])],
         steps |-> 1]

-----------------------------------------------------------------------------
(* soft_update                                                             *)

\* soft_update with the two weights exchanged
soft_update_swapped(target, main, tau) ==
    [i \in 1 .. Len(target) |->
        IF i <= Len(main)
        THEN RatAdd(RatMul(tau, target[i]), RatMul(RatSub(One, tau), main[i]))
        ELSE target[i]]

\* for target_param, main_param in zip(target.parameters(), main.parameters()):
\*     target_param.data.copy_(tau * main_param.data + (1.0 - tau) * target_param.data)
\* zip stops at the shorter of the two; the new target parameters are returned.
soft_update(target, main, tau) ==
    [i \in 1 .. Len(target) |->
        IF i <= Len(main)
        THEN RatAdd(RatMul(tau, main[i]), RatMul(RatSub(One, tau), target[i]))
        ELSE target[i]]

agent_tau == <<1, 20>>                \* DDPGAgent.tau = 0.05

\* self.<name> on an agent whose network attributes are attrs: the attribute
\* exists only if it has been assigned
HasAttribute(attrs, name) == name \in DOMAIN attrs

\* update_target_networks on the agent's network attributes:
\*   self.soft_update(self.target_actor, self.actor, self.tau)
\*   self.soft_update(self.target_critic, self.critic, self.tau)
update_target_networks(attrs) ==
    IF ~HasAttribute(attrs, "target_actor")
    THEN [status |-> "error", err |-> "AttributeError", attrs |-> attrs]
    ELSE LET a1 == [attrs EXCEPT !["target_actor"] =
                       soft_update(attrs["target_actor"], attrs["actor"],
                                   agent_tau)]
         IN  IF ~HasAttribute(a1, "target_critic")
             THEN [status |-> "error", err |-> "AttributeError", attrs |-> a1]
             ELSE [status |-> "ok", err |-> "",
                   attrs |-> [a1 EXCEPT !["target_critic"] =
                                 soft_update(a1["target_critic"], a1["critic"],
                                             agent_tau)]]

-----------------------------------------------------------------------------
(* RewardNormalizer                                                        *)

\* update with M2 += delta * delta in place of delta * delta2
normalizer_update_delta_squared(self, reward) ==
    LET count == self.count + 1
        delta == RatSub(reward, self.mean)
        mean == RatAdd(self.mean, RatDiv(delta, RatInt(count)))
    IN  [mean |-> mean, M2 |-> RatAdd(self.M2, RatMul(delta, delta)),
         count |-> count]

\* RewardNormalizer.update
normalizer_update(self, reward) ==
    LET count == self.count + 1
        delta == RatSub(reward, self.mean)
        mean == RatAdd(self.mean, RatDiv(delta, RatInt(count)))
        delta2 == RatSub(reward, mean)
    IN  [mean |-> mean, M2 |-> RatAdd(self.M2, RatMul(delta, delta2)),
         count |-> count]

\* float("inf"), and variance ** 0.5 kept as the square root of sq
StdInf == [inf |-> TRUE, sq |-> Zero]
StdSqrt(variance) == [inf |-> FALSE, sq |-> variance]

\* RewardNormalizer.get_stats: (mean, std)
normalizer_get_stats(self) ==
    IF self.count < 2
    THEN [mean |-> self.mean, std |-> StdInf]
    ELSE [mean |-> self.mean,
          std |-> StdSqrt(RatDiv(self.M2, RatInt(self.count)))]

\* the value x, and the value num / sqrt(sq)
Raw(x) == [kind |-> "raw", num |-> x, sq |-> One]
Scaled(num, sq) == [kind |-> "scaled", num |-> num, sq |-> sq]

\* RewardNormalizer.normalize
normalizer_normalize(self, reward) ==
    LET stats == normalizer_get_stats(self)
    IN  IF stats.std.inf \/ stats.std.sq = Zero
        THEN Raw(reward)
        ELSE Scaled(RatSub(reward, stats.mean), stats.std.sq)

-----------------------------------------------------------------------------
(* train_critic and the critic optimizer                                   *)

RatAbs(a) == <<Abs(a[1]), a[2]>>

\* the integer square root of n, and the square root of a rational that is
\* the square of a rational
ISqrt(n) == CHOOSE k \in 0 .. n : k * k <= n /\ (k + 1) * (k + 1) > n
RatSqrt(a) == Rat(ISqrt(a[1]), ISqrt(a[2]))

SeqRatMean(xs) == RatDiv(RatSum(xs), RatInt(Len(xs)))

\* torch.optim.Adam(self.critic.parameters(), lr = 1e-5, weight_decay = 1e-5)
AdamWeightDecay == <<1, 100000>>
AdamEps == <<1, 100000000>>           \* torch.optim.Adam's default eps = 1e-8
ClipMaxNorm == One                    \* clip_grad_norm_(..., max_norm = 1.0)
ClipEps == <<1, 1000000>>             \* clip_grad_norm_'s 1e-6

\* torch.nn.utils.clip_grad_norm_(parameters, max_norm): every gradient is
\* multiplied by min(1, max_norm / (total_norm + 1e-6))
clip_grad_norm(grads) ==
    LET total_norm ==
            RatSqrt(RatSum([j \in 1 .. Len(grads) |-> RatMul(grads[j], grads[j])]))
        clip_coef == RatDiv(ClipMaxNorm, RatAdd(total_norm, ClipEps))
    IN  IF RatLt(clip_coef, One)
        THEN [j \in 1 .. Len(grads) |-> RatMul(grads[j], clip_coef)]
        ELSE grads

\* The first step of Adam with weight_decay on one parameter p of gradient
\* grad: g = grad + weight_decay * p; exp_avg = (1 - beta1) * g and
\* exp_avg_sq = (1 - beta2) * g * g, whose bias-corrected values at step 1 are
\* g and g * g; p -= lr * g / (sqrt(g * g) + eps).  The result is the
\* multiple of lr taken off p, g / (|g| + eps), computed with numerator and
\* denominator both divided by weight_decay.
adam_first_step(p, grad) ==
    LET g == RatAdd(RatDiv(grad, AdamWeightDecay), p)
    IN  RatDiv(g, RatAdd(RatAbs(g), RatDiv(AdamEps, AdamWeightDecay)))

\* train_critic(experience, is_weights) on a critic whose optimizer has not
\* stepped yet.  The value estimator is opaque: td_error[k] is the TD error
\* of the k-th experience, dq[j] the derivative of the predicted Q values
\* with respect to parameter j (the same for every experience of the batch).
\*   critic_loss = mean(td_error ** 2); critic_loss = (critic_loss * is_weights).mean()
\*   backward; clip_grad_norm_; critic_optimizer.step()
\* Returns the loss and the critic after the step: parameter j is then
\* parameters[j] - lr * lr_steps[j].
train_critic(self, td_error, dq, is_weights) ==
    LET mse == SeqRatMean([k \in 1 .. Len(td_error) |->
                              RatMul(td_error[k], td_error[k])])
        weight == SeqRatMean(is_weights)
        critic_loss == RatMul(mse, weight)
        \* d mse / d parameter j = mean(2 * td_error * (- dq[j]))
        grad_mse == [j \in 1 .. Len(dq) |->
                        RatMul(RatMul(RatInt(-2), SeqRatMean(td_error)), dq[j])]
        grads == clip_grad_norm([j \in 1 .. Len(dq) |-> RatMul(weight, grad_mse[j])])
    IN  [loss |-> critic_loss,
         td_error |-> td_error,
         critic |-> [parameters |-> self.parameters,
                     step_count |-> self.step_count + 1,
                     lr_steps |-> [j \in 1 .. Len(self.parameters) |->
                                      adam_first_step(self.parameters[j], grads[j])]]]

-----------------------------------------------------------------------------
(* The exploration state machine                                           *)

NoCall ==
    [op |-> "none", mode |-> "", path |-> "", status |-> "ok", err |-> "",
     logits_len |-> 0, actions |-> <<>>, samples |-> 0, actor_steps |-> 0,
     ec_delta |-> 0, eps_changed |-> FALSE, noise_changed |-> FALSE,
     sigma_changed |-> FALSE]

\* DDPGAgent.__post_init__ with warmup_steps = w
InitAgent(w) ==
    /\ episode_count = 0
    /\ epsilon = One
    /\ warmup_steps = w
    /\ ou_noise = OUInit(M_assets, <<1, 5>>, Half)
    /\ last = NoCall
    /\ hybrid_steps = 0
    /\ noise_samples = 0

NoSoftCall == [op |-> "none", status |-> "ok", err |-> "",
               tau |-> Zero, prev_tau |-> Zero,
               pre_target |-> <<>>, pre_main |-> <<>>, calls |-> 0]

\* two networks of the given parameters, before any soft_update; the agent's
\* own networks are those __post_init__ assigns: self.actor and self.critic
\* (target_actor and target_critic are declared field(init=False) and are
\* assigned nowhere)
InitNetworks(target, main) ==
    /\ target_network = target
    /\ main_network = main
    /\ soft_last = NoSoftCall
    /\ networks = [actor |-> main, critic |-> target]

NoNormCall == [op |-> "none", x |-> Zero, mean |-> Zero,
               std |-> [inf |-> TRUE, sq |-> Zero],
               value |-> [kind |-> "raw", num |-> Zero, sq |-> One],
               pre |-> [mean |-> Zero, M2 |-> Zero, count |-> 0]]

\* RewardNormalizer.__init__
InitNormalizer ==
    /\ normalizer = [mean |-> Zero, M2 |-> Zero, count |-> 0]
    /\ observations = <<>>
    /\ norm_last = NoNormCall

NoCriticCall == [op |-> "none", loss |-> Zero, is_weights |-> <<>>,
                 pre |-> <<>>]

\* self.critic = Critic(3, m_assets) with the given parameters, and its
\* optimizer before any step
InitCritic(parameters) ==
    /\ critic = [parameters |-> parameters, step_count |-> 0,
                 lr_steps |-> [j \in 1 .. Len(parameters) |-> Zero]]
    /\ critic_last = NoCriticCall

\* the smallest window_size: __post_init__ writes the index window_size - 2
MinWindowSize == 2

\* PortfolioVectorMemory(n_samples, m_noncash_assets) after
\* update_memory_stack(zeros, window_size - 2): its capacity and the set of
\* indices written so far
pvm_init(n, w) == [capacity |-> n, written |-> {w - 2}]

NoPreTrain == [op |-> "none", status |-> "ok", err |-> "", adds |-> 0,
               loop_done |-> FALSE, len_before |-> 0, max_index |-> -1,
               max_previous_index |-> -1, samples |-> 0, ec_before |-> 0,
               ec_after |-> 0, eps_changed |-> FALSE, noise_at_mu |-> TRUE]

NoTrain == [op |-> "none", status |-> "ok", err |-> "", log |-> <<>>,
            schedulers |-> 0, iterations |-> 0, critic_steps |-> 0,
            actor_steps |-> 0, critic_scheduler_steps |-> 0,
            actor_scheduler_steps |-> 0, len_before |-> 0,
            memory_changed |-> FALSE, buffer_changed |-> FALSE,
            exploration_changed |-> FALSE, pvm_changed |-> FALSE,
            n_episodes |-> 0, n_iterations_per_episode |-> 0]

NoWarmUp == [op |-> "none", status |-> "", log |-> <<>>, critic_steps |-> 0,
             actor_steps |-> 0, len_before |-> 0, memory_changed |-> FALSE,
             pvm_changed |-> FALSE, n_iterations |-> 0]

\* the rest of DDPGAgent.__post_init__: batch_size = b, window_size = w, a
\* dataset of n samples, the PortfolioVectorMemory, and
\* replay_memory = PrioritizedReplayMemory(capacity = 20000), empty
InitTraining(b, n, w, checked) ==
    /\ batch_size = b
    /\ n_samples = n
    /\ window_size = w
    /\ pvm = pvm_init(n, w)
    /\ ds_checks_index = checked
    /\ replay_memory = [buffer |-> <<>>, td_updated |-> {}]
    /\ pre_last = NoPreTrain
    /\ train_last = NoTrain
    /\ pre_train_calls = 0
    /\ warm_last = NoWarmUp

Init ==
    /\ \E w \in 1 .. MaxWarmup : InitAgent(w)
    /\ InitNetworks(<<>>, <<>>)
    /\ InitNormalizer
    /\ InitCritic(<<>>)
    /\ InitTraining(1, 1, MinWindowSize, FALSE)

\* The values one select_action call draws: the logits of the policy network
\* and the random numbers of the path taken (each generator is read only on
\* the path that uses it; the others keep a fixed value the call ignores).
\* The uniform branch and the calls that raise never read the logits' values,
\* only their length.
NoDraw(n) ==
    [logits |-> [i \in 1 .. n |-> 0], u |-> [i \in 1 .. M_assets |-> 1],
     r |-> Zero, z |-> [i \in 1 .. M_assets |-> Zero]]

Draws(self, exploration, action_type, n) ==
    IF exploration /\ action_type = "hybrid"
       /\ self.episode_count < self.warmup_steps
    THEN {[NoDraw(n) EXCEPT !.u = u] : u \in UniformDraws(M_assets)}
    ELSE IF exploration /\ action_type \in {"hybrid", "ou"}
    THEN {[NoDraw(n) EXCEPT !.z = z] : z \in NoiseDraws(self.ou_noise.size)}
    ELSE IF exploration /\ action_type = "greedy"
    THEN {[NoDraw(n) EXCEPT !.r = r] : r \in {q \in RandDraws : RatLt(q, self.epsilon)}}
         \cup {[NoDraw(n) EXCEPT !.r = r, !.logits = l] :
                  r \in {q \in RandDraws : ~RatLt(q, self.epsilon)},
                  l \in LogitDraws(n)}
    ELSE {[NoDraw(n) EXCEPT !.logits = l] : l \in LogitDraws(n)}

\* what is kept of a select_action call made on the exploration state self
\* with the given mode and logits length, whose outcome is res
SelectActionCall(self, mode, n, res) ==
    [op |-> "select_action", mode |-> mode, path |-> res.path,
     status |-> res.status, err |-> res.err, logits_len |-> n,
     actions |-> IF res.status = "ok" THEN <<res.action>> ELSE <<>>,
     samples |-> res.samples, actor_steps |-> 0,
     ec_delta |-> res.self.episode_count - self.episode_count,
     eps_changed |-> res.self.epsilon # self.epsilon,
     noise_changed |-> res.self.ou_noise.state # self.ou_noise.state,
     sigma_changed |-> res.self.ou_noise.sigma # self.ou_noise.sigma]

\* The draws of a select_action call that tell its paths apart: r decides
\* between the random and the policy action of the greedy mode; the uniform
\* numbers are equal to each other, the logits and the noise are zero.
LifeDraws(self) ==
    [c \in Calls, n \in ActorOutLens |->
        {d \in Draws(self, c.exploration, c.action_type, n) :
            /\ d.logits = NoDraw(n).logits
            /\ d.z = NoDraw(n).z
            /\ \A i \in 1 .. M_assets : d.u[i] = d.u[1]}]

\* all the draws of a select_action call
AllDraws(self) ==
    [c \in Calls, n \in ActorOutLens |->
        Draws(self, c.exploration, c.action_type, n)]

\* one call of select_action, its random numbers taken from draw_sets[c, n]
SelectActionDrawing(draw_sets) ==
    \E c \in Calls, n \in ActorOutLens :
      \E d \in draw_sets[c, n] :
        \E res \in {select_action(Self, c.exploration, c.action_type, d.logits,
                                  d.u, d.r, d.z)} :
            /\ res.self.episode_count <= MaxEpisodeCount
            /\ noise_samples + res.samples <= MaxNoiseSamples
            /\ episode_count' = res.self.episode_count
            /\ epsilon' = res.self.epsilon
            /\ ou_noise' = res.self.ou_noise
            /\ noise_samples' = noise_samples + res.samples
            /\ last' = SelectActionCall(Self,
                            IF c.exploration THEN c.action_type ELSE "off",
                            n, res)
            /\ hybrid_steps' = hybrid_steps + (IF res.path = "uniform" THEN 1 ELSE 0)
            /\ UNCHANGED <<warmup_steps, softVars, learnVars, normVars, trainVars>>

SelectAction == SelectActionDrawing(AllDraws(Self))

UpdateEpsilon ==
    \E res \in {update_epsilon(Self)} :
        /\ episode_count < MaxEpisodeCount
        /\ episode_count' = res.episode_count
        /\ epsilon' = res.epsilon
        /\ last' = [NoCall EXCEPT !.op = "update_epsilon", !.ec_delta = 1,
                                   !.eps_changed = (res.epsilon # epsilon)]
        /\ UNCHANGED <<warmup_steps, ou_noise, noise_samples, hybrid_steps,
                       softVars, learnVars, normVars, trainVars>>

\* train_actor(experience, is_weights) on a batch: logits[k] = the policy
\* network's logits for the k-th state of the batch.
TrainActor ==
    \E n \in ActorOutLens :
      \E logits \in [1 .. batch_size -> LogitDraws(n)] :
        \E res \in {train_actor(logits)} :
            /\ last' = [NoCall EXCEPT !.op = "train_actor", !.logits_len = n,
                                       !.actions = res.actions,
                                       !.actor_steps = res.steps]
            /\ UNCHANGED <<episode_count, epsilon, warmup_steps, ou_noise,
                           hybrid_steps, noise_samples, softVars, learnVars, normVars,
                           trainVars>>

Next == SelectAction \/ UpdateEpsilon \/ TrainActor

Spec == Init /\ [][Next]_vars

-----------------------------------------------------------------------------
(* pre_train and train                                                     *)

ReplayCapacity == 20000     \* PrioritizedReplayMemory(capacity = 20000)
ExtraSteps == 48            \* range(1, n_samples + 49); assert ... == n_samples + 48
DefaultWarmupSteps == 6000  \* warmup_steps: int = 6000

MaxSamples == 2         \* the dataset has 1 .. MaxSamples samples
MaxBatchSize == 2       \* batch_size is in 1 .. MaxBatchSize
MaxPreTrainCalls == 2   \* pre_train is called at most this often
MaxEpisodes == 2        \* train is called with n_episodes in 1 .. MaxEpisodes
MaxIterations == 2      \* and n_iterations_per_episode in 1 .. MaxIterations

\* kraken_ds[idx]: a dataset of n samples holds the indices 0 .. n - 1; outside
\* them a dataset that checks its index raises IndexError
ds_getitem(n, checked, idx) ==
    IF checked /\ ~(idx \in 0 .. n - 1) THEN "IndexError" ELSE "ok"

\* the previous_sample_index that kraken_ds[idx] returns with its observation:
\* the window of sample idx ends at idx + window_size - 1, and the allocation
\* before it is stored one place earlier (__post_init__ stores the initial
\* allocation of sample 0 at window_size - 2)
ds_previous_index(idx, w) == idx + w - 2

\* the indices a PortfolioVectorMemory of the given capacity holds
pvm_valid(memory, index) == index \in 0 .. memory.capacity - 1

\* PortfolioVectorMemory.update_memory_stack(action, index), for a batch of
\* indices
pvm_update_memory_stack(memory, indices) ==
    [memory EXCEPT !.written = @ \cup {indices[k] : k \in 1 .. Len(indices)}]

\* PrioritizedReplayMemory.add(experience, reward): one more entry, whose
\* priority comes from the reward; once the buffer holds capacity entries the
\* oldest one makes room for it.  td_updated is the set of positions whose
\* priority has been overwritten by update_priorities.
replay_add(memory, experience) ==
    IF Len(memory.buffer) < ReplayCapacity
    THEN [memory EXCEPT !.buffer = Append(memory.buffer, experience)]
    ELSE [buffer |-> Append(Tail(memory.buffer), experience),
          td_updated |-> {j - 1 : j \in memory.td_updated \ {1}}]

\* PrioritizedReplayMemory.sample(batch_size): batch_size positions of the
\* buffer, drawn with replacement; the draw of inner iteration t is the run
\* of positions that starts at base + t * batch_size, taken round the buffer
replay_sample(memory, size, base, t) ==
    [k \in 1 .. size |-> ((base + t * size + k - 1) % Len(memory.buffer)) + 1]

\* PrioritizedReplayMemory.update_priorities(indices, td_error)
replay_update_priorities(memory, indices) ==
    [memory EXCEPT !.td_updated =
        memory.td_updated \cup {indices[k] : k \in 1 .. Len(indices)}]

PreTrainRaise(st, err) == [st EXCEPT !.status = "error", !.err = err]

\* the body of pre_train's loop at index i, on
\* st = [self, memory, last, status, err, adds, max_index,
\*       max_previous_index, samples, loop_done]; last is the outcome of the
\* last select_action call
pre_train_step(st, i, env) ==
    IF ds_getitem(env.n_samples, env.checked, i - 1) # "ok"
    THEN PreTrainRaise([st EXCEPT !.max_index = i - 1], "IndexError")
    ELSE LET prev_index == ds_previous_index(i - 1, env.window_size)
             sel == select_action(st.self, TRUE, "hybrid",
                                  NoDraw(env.logits_len).logits,
                                  NoDraw(env.logits_len).u, Zero, env.z)
             st1 == [st EXCEPT !.self = sel.self, !.max_index = i - 1,
                               !.max_previous_index = prev_index,
                               !.samples = st.samples + sel.samples,
                               !.last = SelectActionCall(st.self, "hybrid",
                                                         env.logits_len, sel)]
         IN  IF sel.status # "ok"
             THEN PreTrainRaise(st1, sel.err)
             ELSE IF ds_getitem(env.n_samples, env.checked, i) # "ok"
             THEN PreTrainRaise([st1 EXCEPT !.max_index = i], "IndexError")
             ELSE [st1 EXCEPT !.max_index = i,
                              !.adds = st.adds + 1,
                              !.memory = replay_add(st.memory,
                                            [ds_index |-> i - 1,
                                             previous_index |-> prev_index])]

\* for i in range(1, n_samples + 49): ... ; an exception ends the loop
RECURSIVE pre_train_loop(_, _, _)
pre_train_loop(st, i, env) ==
    IF i > env.n_samples + ExtraSteps \/ st.status # "ok"
    THEN st
    ELSE pre_train_loop(pre_train_step(st, i, env), i + 1, env)

\* pre_train with the exploration counter reset along with the noise
pre_train_resets_counter(self, memory, last_call, env) ==
    LET st == pre_train_loop(
                  [self |-> [self EXCEPT !.ou_noise = OUReset(self.ou_noise),
                                         !.episode_count = 0],
                   memory |-> memory, last |-> last_call, status |-> "ok",
                   err |-> "", adds |-> 0,
                   max_index |-> -1, max_previous_index |-> -1, samples |-> 0,
                   loop_done |-> FALSE],
                  1, env)
    IN  IF st.status # "ok"
        THEN st
        ELSE IF Len(st.memory.buffer) # env.n_samples + ExtraSteps
        THEN PreTrainRaise([st EXCEPT !.loop_done = TRUE], "AssertionError")
        ELSE [st EXCEPT !.loop_done = TRUE]

\* pre_train: reset the noise, run the loop, then
\* assert len(self.replay_memory) == n_samples + 48
pre_train(self, memory, last_call, env) ==
    LET st == pre_train_loop(
                  [self |-> [self EXCEPT !.ou_noise = OUReset(self.ou_noise)],
                   memory |-> memory, last |-> last_call, status |-> "ok",
                   err |-> "", adds |-> 0,
                   max_index |-> -1, max_previous_index |-> -1, samples |-> 0,
                   loop_done |-> FALSE],
                  1, env)
    IN  IF st.status # "ok"
        THEN st
        ELSE IF Len(st.memory.buffer) # env.n_samples + ExtraSteps
        THEN PreTrainRaise([st EXCEPT !.loop_done = TRUE], "AssertionError")
        ELSE [st EXCEPT !.loop_done = TRUE]

\* one step of a training run, as it is logged: the operation, the inner
\* iteration t it belongs to (for update_priorities: the iteration whose
\* train_critic computed the TD error passed to it) and the indices it is
\* given (replay positions, or PortfolioVectorMemory indices)
Event(ev, t, indices) == [ev |-> ev, t |-> t, indices |-> indices]

\* the state a training run works on: the agent's exploration state, the
\* replay memory, the PortfolioVectorMemory, and what the run has done so far
TrainState(self, memory, pvm_memory) ==
    [self |-> self, memory |-> memory, pvm |-> pvm_memory, log |-> <<>>,
     iterations |-> 0, critic_steps |-> 0, actor_steps |-> 0,
     critic_scheduler_steps |-> 0, actor_scheduler_steps |-> 0]

\* experiences, indices, is_weights = self.replay_memory.sample(batch_size)
train_sample(st, size, base, t) ==
    [st EXCEPT !.log = Append(@, Event("sample", t,
                                       replay_sample(st.memory, size, base, t)))]

\* td_error, critic_loss = self.train_critic(experiences, is_weights): one
\* step of the critic optimizer on the batch
train_critic_step(st, t, indices) ==
    [st EXCEPT !.critic_steps = @ + 1,
               !.log = Append(@, Event("train_critic", t, indices))]

\* self.replay_memory.update_priorities(indices, td_error), td_error being
\* the one of iteration td_of
train_update_priorities(st, td_of, indices) ==
    [st EXCEPT !.memory = replay_update_priorities(@, indices),
               !.log = Append(@, Event("update_priorities", td_of, indices))]

\* action, actor_loss = self.train_actor(experiences, is_weights): one step
\* of the actor optimizer on the batch
train_actor_step(st, t, indices) ==
    [st EXCEPT !.actor_steps = @ + 1,
               !.log = Append(@, Event("train_actor", t, indices))]

\* self.pvm.update_memory_stack(action.detach(), experiences.previous_index + 1)
train_update_memory_stack(st, t, indices) ==
    LET targets == [k \in 1 .. Len(indices) |->
                       st.memory.buffer[indices[k]].previous_index + 1]
    IN  [st EXCEPT !.pvm = pvm_update_memory_stack(@, targets),
                   !.log = Append(@, Event("update_memory_stack", t, targets))]

\* critic_scheduler.step(); actor_scheduler.step()
train_schedulers_step(st, t) ==
    [st EXCEPT !.critic_scheduler_steps = @ + 1,
               !.actor_scheduler_steps = @ + 1,
               !.log = @ \o <<Event("critic_scheduler.step", t, <<>>),
                               Event("actor_scheduler.step", t, <<>>)>>]

\* an inner iteration that trains the actor before the priorities are updated
train_iteration_actor_first(st, size, base, t) ==
    LET indices == replay_sample(st.memory, size, base, t)
        s1 == train_sample(st, size, base, t)
        s2 == train_critic_step(s1, t, indices)
        s3 == train_actor_step(s2, t, indices)
        s4 == train_update_priorities(s3, t, indices)
        s5 == train_update_memory_stack(s4, t, indices)
        s6 == train_schedulers_step(s5, t)
    IN  [s6 EXCEPT !.iterations = @ + 1]

\* an inner iteration that leaves the schedulers alone
train_iteration_no_scheduler_step(st, size, base, t) ==
    LET indices == replay_sample(st.memory, size, base, t)
        s1 == train_sample(st, size, base, t)
        s2 == train_critic_step(s1, t, indices)
        s3 == train_update_priorities(s2, t, indices)
        s4 == train_actor_step(s3, t, indices)
        s5 == train_update_memory_stack(s4, t, indices)
    IN  [s5 EXCEPT !.iterations = @ + 1]

\* an inner iteration that also advances the epsilon schedule
train_iteration_updates_epsilon(st, size, base, t) ==
    LET indices == replay_sample(st.memory, size, base, t)
        s1 == train_sample(st, size, base, t)
        s2 == train_critic_step(s1, t, indices)
        s3 == train_update_priorities(s2, t, indices)
        s4 == train_actor_step(s3, t, indices)
        s5 == train_update_memory_stack(s4, t, indices)
        s6 == train_schedulers_step(s5, t)
    IN  [s6 EXCEPT !.iterations = @ + 1, !.self = update_epsilon(@)]

\* one inner iteration of train, the t-th of the run (t = 0, 1, ...)
train_iteration(st, size, base, t) ==
    LET indices == replay_sample(st.memory, size, base, t)
        s1 == train_sample(st, size, base, t)
        s2 == train_critic_step(s1, t, indices)
        s3 == train_update_priorities(s2, t, indices)
        s4 == train_actor_step(s3, t, indices)
        s5 == train_update_memory_stack(s4, t, indices)
        s6 == train_schedulers_step(s5, t)
    IN  [s6 EXCEPT !.iterations = @ + 1]

\* for iteration in range(n_iterations_per_episode): ...
RECURSIVE train_episode(_, _, _, _, _)
train_episode(st, size, base, iteration, n_iterations_per_episode) ==
    IF iteration >= n_iterations_per_episode
    THEN st
    ELSE train_episode(train_iteration(st, size, base, st.iterations), size, base,
                       iteration + 1, n_iterations_per_episode)

\* for episode in range(n_episodes): ...
RECURSIVE train_episodes(_, _, _, _, _, _)
train_episodes(st, size, base, episode, n_episodes, n_iterations_per_episode) ==
    IF episode >= n_episodes
    THEN st
    ELSE train_episodes(train_episode(st, size, base, 0, n_iterations_per_episode),
                        size, base, episode + 1, n_episodes,
                        n_iterations_per_episode)

TrainResult(st, status, err, schedulers) ==
    [status |-> status, err |-> err, schedulers |-> schedulers, st |-> st]

\* train without the check of the empty buffer: the schedulers are created
\* and the first sample of an empty buffer fails
train_unchecked(st, size, base, n_episodes, n_iterations_per_episode) ==
    IF Len(st.memory.buffer) = 0
    THEN TrainResult([st EXCEPT !.log = <<Event("sample", 0, <<>>)>>],
                     "error", "ValueError", 2)
    ELSE TrainResult(train_episodes(st, size, base, 0, n_episodes,
                                    n_iterations_per_episode),
                     "ok", "", 2)

\* train(n_episodes, n_iterations_per_episode) on st = TrainState(...); the
\* result counts the schedulers created
train(st, size, base, n_episodes, n_iterations_per_episode) ==
    IF Len(st.memory.buffer) = 0
    THEN TrainResult(st, "error", "Exception: replay memory is empty", 0)
    ELSE TrainResult(train_episodes(st, size, base, 0, n_episodes,
                                    n_iterations_per_episode),
                     "ok", "", 2)

\* warm_up_critic that samples without looking at the size of the buffer
RECURSIVE warm_up_critic_unchecked(_, _, _, _, _)
warm_up_critic_unchecked(st, size, base, iteration, n_iterations) ==
    IF iteration >= n_iterations
    THEN TrainResult(st, "complete", "", 0)
    ELSE IF Len(st.memory.buffer) = 0
    THEN TrainResult([st EXCEPT !.log = Append(@, Event("sample", iteration, <<>>))],
                     "error", "ValueError", 0)
    ELSE LET indices == replay_sample(st.memory, size, base, iteration)
             s1 == train_sample(st, size, base, iteration)
             s2 == train_critic_step(s1, iteration, indices)
         IN  warm_up_critic_unchecked([s2 EXCEPT !.iterations = @ + 1], size,
                                      base, iteration + 1, n_iterations)

\* warm_up_critic(n_iterations), from its iteration-th iteration on:
\*   if len(self.replay_memory) < self.batch_size: print(...); return
\*   sample; train_critic
RECURSIVE warm_up_critic(_, _, _, _, _)
warm_up_critic(st, size, base, iteration, n_iterations) ==
    IF iteration >= n_iterations
    THEN TrainResult(st, "complete", "", 0)
    ELSE IF Len(st.memory.buffer) < size
    THEN TrainResult(st, "skipped", "", 0)
    ELSE LET indices == replay_sample(st.memory, size, base, iteration)
             s1 == train_sample(st, size, base, iteration)
             s2 == train_critic_step(s1, iteration, indices)
         IN  warm_up_critic([s2 EXCEPT !.iterations = @ + 1], size, base,
                            iteration + 1, n_iterations)

MaxWindowSize == 3      \* window_size is in MinWindowSize .. MaxWindowSize

\* an agent constructed with a window size among the given ones
InitTrainWith(window_sizes) ==
    /\ \E w \in {MaxWarmup, DefaultWarmupSteps} : InitAgent(w)
    /\ InitNetworks(<<>>, <<>>)
    /\ InitNormalizer
    /\ InitCritic(<<>>)
    /\ \E b \in 1 .. MaxBatchSize, n \in 1 .. MaxSamples,
          w \in window_sizes, checked \in BOOLEAN :
          InitTraining(b, n, w, checked)

InitTrain == InitTrainWith({MinWindowSize})

\* The values a pre_train call draws that decide its outcome: the length of the
\* logits and the noise of the select_action call that leaves the warmup, if
\* the loop is long enough to get there (the uniform draws of the warmup
\* calls only decide the values stored, which are not modelled).
PreTrainDraws(self, n) ==
    IF self.episode_count + n + ExtraSteps > self.warmup_steps
    THEN {[logits_len |-> l, z |-> z] :
             l \in ActorOutLens, z \in NoiseDraws(self.ou_noise.size)}
    ELSE {[logits_len |-> M_noncash_assets, z |-> NoDraw(M_noncash_assets).z]}

PreTrain ==
    /\ pre_train_calls < MaxPreTrainCalls
    /\ \E d \in PreTrainDraws(Self, n_samples) :
         \E res \in {pre_train(Self, replay_memory, last,
                                [n_samples |-> n_samples,
                                 window_size |-> window_size,
                                 checked |-> ds_checks_index,
                                 logits_len |-> d.logits_len, z |-> d.z])} :
           /\ pre_train_calls' = pre_train_calls + 1
           /\ episode_count' = res.self.episode_count
           /\ epsilon' = res.self.epsilon
           /\ ou_noise' = res.self.ou_noise
           /\ hybrid_steps' = hybrid_steps + (res.self.episode_count - episode_count)
           /\ noise_samples' = noise_samples + res.samples
           /\ replay_memory' = res.memory
           /\ last' = res.last
           /\ pre_last' = [op |-> "pre_train", status |-> res.status,
                           err |-> res.err, adds |-> res.adds,
                           loop_done |-> res.loop_done,
                           len_before |-> Len(replay_memory.buffer),
                           max_index |-> res.max_index,
                           max_previous_index |-> res.max_previous_index,
                           samples |-> res.samples,
                           ec_before |-> episode_count,
                           ec_after |-> res.self.episode_count,
                           eps_changed |-> res.self.epsilon # epsilon,
                           noise_at_mu |->
                               \A i \in 1 .. res.self.ou_noise.size :
                                   res.self.ou_noise.state[i] = res.self.ou_noise.mu]
           /\ UNCHANGED <<warmup_steps, softVars, learnVars, normVars,
                          batch_size, n_samples, window_size, pvm,
                          ds_checks_index, train_last, warm_last>>

\* one call of train; base stands for the random draws of the sampling
TrainCall(n_episodes, n_iterations_per_episode, base) ==
      \E res \in {train(TrainState(Self, replay_memory, pvm), batch_size, base,
                         n_episodes, n_iterations_per_episode)} :
        /\ episode_count' = res.st.self.episode_count
        /\ epsilon' = res.st.self.epsilon
        /\ ou_noise' = res.st.self.ou_noise
        /\ replay_memory' = res.st.memory
        /\ pvm' = res.st.pvm
        /\ train_last' = [op |-> "train", status |-> res.status, err |-> res.err,
                          log |-> res.st.log, schedulers |-> res.schedulers,
                          iterations |-> res.st.iterations,
                          critic_steps |-> res.st.critic_steps,
                          actor_steps |-> res.st.actor_steps,
                          critic_scheduler_steps |-> res.st.critic_scheduler_steps,
                          actor_scheduler_steps |-> res.st.actor_scheduler_steps,
                          len_before |-> Len(replay_memory.buffer),
                          memory_changed |-> res.st.memory # replay_memory,
                          buffer_changed |->
                              res.st.memory.buffer # replay_memory.buffer,
                          exploration_changed |-> res.st.self # Self,
                          pvm_changed |-> res.st.pvm # pvm,
                          n_episodes |-> n_episodes,
                          n_iterations_per_episode |-> n_iterations_per_episode]
        /\ UNCHANGED <<warmup_steps, last, hybrid_steps, noise_samples, softVars,
                       learnVars, normVars, batch_size, n_samples, window_size,
                       ds_checks_index, pre_last, pre_train_calls, warm_last>>

Train ==
    \E n_episodes \in 1 .. MaxEpisodes,
       n_iterations_per_episode \in 1 .. MaxIterations,
       base \in 0 .. 1 :
      TrainCall(n_episodes, n_iterations_per_episode, base)

NextTrain == PreTrain \/ Train

SpecTrain == InitTrain /\ [][NextTrain]_vars

\* the same calls on agents of every window size
InitWindow == InitTrainWith(MinWindowSize .. MaxWindowSize)

SpecWindow == InitWindow /\ [][NextTrain]_vars

\* C4: when pre_train runs to its end, the replay buffer holds exactly
\* n_samples + 48 experiences and the final assertion holds, whatever the
\* buffer held before the call.
Cex_C4_BufferLength ==
    (pre_last.op = "pre_train" /\ pre_last.loop_done) =>
        /\ pre_last.status = "ok"
        /\ Len(replay_memory.buffer) = n_samples + ExtraSteps

\* C5: train called on an empty replay buffer raises the empty-buffer error
\* before anything else: nothing is sampled, no optimizer or scheduler is
\* created or stepped, no priority is updated and no PortfolioVectorMemory
\* entry is written.
Thm_C5_EmptyBuffer ==
    (train_last.op = "train" /\ train_last.len_before = 0) =>
        /\ train_last.status = "error"
        /\ train_last.err = "Exception: replay memory is empty"
        /\ train_last.log = <<>>
        /\ train_last.schedulers = 0
        /\ train_last.iterations = 0
        /\ ~train_last.memory_changed

\* train called before any pre_train
Wit_C5_EmptyBuffer ==
    /\ train_last.op = "train"
    /\ train_last.len_before = 0
    /\ pre_train_calls = 0
    /\ train_last.status = "error"

\* warm_up_critic(n_iterations) with n_iterations in 0 .. MaxIterations
WarmUpCritic ==
    \E n_iterations \in 0 .. MaxIterations, base \in 0 .. 1 :
      \E res \in {warm_up_critic(TrainState(Self, replay_memory, pvm),
                                  batch_size, base, 0, n_iterations)} :
        /\ replay_memory' = res.st.memory
        /\ pvm' = res.st.pvm
        /\ warm_last' = [op |-> "warm_up_critic", status |-> res.status,
                         log |-> res.st.log,
                         critic_steps |-> res.st.critic_steps,
                         actor_steps |-> res.st.actor_steps,
                         len_before |-> Len(replay_memory.buffer),
                         memory_changed |-> res.st.memory # replay_memory,
                         pvm_changed |-> res.st.pvm # pvm,
                         n_iterations |-> n_iterations]
        /\ UNCHANGED <<exploreVars, softVars, learnVars, normVars, batch_size,
                       n_samples, window_size, ds_checks_index, pre_last,
                       train_last, pre_train_calls>>

NextWarmUp == PreTrain \/ WarmUpCritic

SpecWarmUp == InitTrain /\ [][NextWarmUp]_vars

\* C16: warm_up_critic stops with a message, without raising and without
\* sampling or updating the critic, when the buffer holds fewer than
\* batch_size experiences; otherwise it makes exactly n_iterations critic-only
\* updates; it never updates the actor or a priority and never writes the
\* PortfolioVectorMemory.
Thm_C16_WarmUpCritic ==
    warm_last.op = "warm_up_critic" =>
        /\ warm_last.status \in {"skipped", "complete"}
        /\ (warm_last.len_before < batch_size /\ warm_last.n_iterations > 0) =>
              /\ warm_last.status = "skipped"
              /\ warm_last.log = <<>>
              /\ warm_last.critic_steps = 0
        /\ (warm_last.len_before >= batch_size \/ warm_last.n_iterations = 0) =>
              /\ warm_last.status = "complete"
              /\ warm_last.critic_steps = warm_last.n_iterations
              /\ Len(warm_last.log) = 2 * warm_last.n_iterations
              /\ \A i \in 1 .. Len(warm_last.log) :
                    warm_last.log[i].ev
                        = (IF i % 2 = 1 THEN "sample" ELSE "train_critic")
        /\ warm_last.actor_steps = 0
        /\ ~warm_last.memory_changed
        /\ ~warm_last.pvm_changed

\* a buffer that is not empty but smaller than the batch: the call is skipped
Wit_C16_WarmUpCritic ==
    /\ warm_last.op = "warm_up_critic"
    /\ warm_last.len_before > 0
    /\ warm_last.len_before < batch_size
    /\ warm_last.status = "skipped"

\* the steps of one inner iteration of train, in the order of the code
IterationEvents ==
    <<"sample", "train_critic", "update_priorities", "train_actor",
      "update_memory_stack", "critic_scheduler.step", "actor_scheduler.step">>

\* C13: in every inner iteration of train the steps are, in this order: sample,
\* train_critic on the sampled batch, update_priorities with the indices of
\* that sample and the TD error of that critic step, train_actor on the same
\* batch, the PortfolioVectorMemory write, the two scheduler steps; between a
\* sample and its update_priorities nothing else touches the replay buffer.
Thm_C13_IterationOrder ==
    (train_last.op = "train" /\ train_last.status = "ok") =>
        LET log == train_last.log
            n == Len(IterationEvents)
        IN  /\ Len(log) = n * train_last.iterations
            /\ \A t \in 0 .. train_last.iterations - 1 :
                  /\ \A k \in 1 .. n :
                        /\ log[n * t + k].ev = IterationEvents[k]
                        /\ log[n * t + k].t = t
                  /\ \A k \in 2 .. 4 :
                        log[n * t + k].indices = log[n * t + 1].indices
            /\ \A i \in 1 .. Len(log) :
                  log[i].ev = "sample" =>
                      /\ i + 2 <= Len(log)
                      /\ log[i + 1].ev = "train_critic"
                      /\ log[i + 2].ev = "update_priorities"
                      /\ log[i + 2].indices = log[i].indices

\* a run of several iterations whose batches differ
Wit_C13_IterationOrder ==
    /\ train_last.op = "train" /\ train_last.status = "ok"
    /\ train_last.iterations >= 2
    /\ batch_size = 2
    /\ train_last.log[1].indices # train_last.log[Len(IterationEvents) + 1].indices
    /\ train_last.log[Len(IterationEvents) + 3].indices
          = train_last.log[Len(IterationEvents) + 1].indices

\* C14: the index previous_index read by pre_train through get_memory_stack,
\* and the index previous_index + 1 written by train, lie within
\* 0 .. n_samples - 1, the range of the PortfolioVectorMemory.
Cex_C14_MemoryRange ==
    /\ pre_last.op = "pre_train" =>
          (pre_last.max_previous_index = -1
             \/ pvm_valid(pvm, pre_last.max_previous_index))
    /\ train_last.op = "train" =>
          \A i \in 1 .. Len(train_last.log) :
              train_last.log[i].ev = "update_memory_stack" =>
                  \A k \in 1 .. Len(train_last.log[i].indices) :
                      pvm_valid(pvm, train_last.log[i].indices[k])

\* the number of steps of the given kind in a log
CountEvents(log, ev) == Cardinality({i \in 1 .. Len(log) : log[i].ev = ev})

\* C15: train started on a non-empty buffer ends after exactly
\* n_episodes * n_iterations_per_episode inner iterations, and each of the two
\* schedulers is stepped once per inner iteration.
Thm_C15_IterationsAndSchedulers ==
    (train_last.op = "train" /\ train_last.len_before > 0) =>
        /\ train_last.status = "ok"
        /\ train_last.iterations
              = train_last.n_episodes * train_last.n_iterations_per_episode
        /\ train_last.schedulers = 2
        /\ train_last.critic_scheduler_steps = train_last.iterations
        /\ train_last.actor_scheduler_steps = train_last.iterations
        /\ CountEvents(train_last.log, "critic_scheduler.step")
              = train_last.iterations
        /\ CountEvents(train_last.log, "actor_scheduler.step")
              = train_last.iterations
        /\ CountEvents(train_last.log, "sample") = train_last.iterations

\* two episodes of two iterations each: four scheduler steps, not two
Wit_C15_IterationsAndSchedulers ==
    /\ train_last.op = "train" /\ train_last.len_before > 0
    /\ train_last.n_episodes = 2 /\ train_last.n_iterations_per_episode = 2
    /\ train_last.critic_scheduler_steps = 4
    /\ train_last.actor_scheduler_steps = 4

\* C19: a train run adds and removes no experience (only priorities change in
\* the replay memory) and leaves episode_count, epsilon and the noise process
\* as they were.
Thm_C19_TrainFrame ==
    train_last.op = "train" =>
        /\ ~train_last.buffer_changed
        /\ ~train_last.exploration_changed
        /\ \A i \in 1 .. Len(train_last.log) :
              train_last.log[i].ev
                  \in {IterationEvents[k] : k \in 1 .. Len(IterationEvents)}

\* a run that changed priorities and nothing else in the replay memory
Wit_C19_TrainFrame ==
    /\ train_last.op = "train" /\ train_last.status = "ok"
    /\ train_last.memory_changed
    /\ ~train_last.buffer_changed
    /\ episode_count > 0
    /\ replay_memory.td_updated # {}

\* C20: every dataset index that pre_train reads lies in 0 .. n_samples - 1.
Cex_C20_DatasetRange ==
    pre_last.op = "pre_train" => pre_last.max_index <= n_samples - 1

-----------------------------------------------------------------------------
(* The exploration counter over the life of an agent                       *)

InitLife ==
    /\ \E w \in {MaxWarmup, DefaultWarmupSteps} : InitAgent(w)
    /\ InitNetworks(<<>>, <<>>)
    /\ InitNormalizer
    /\ InitCritic(<<>>)
    /\ InitTraining(1, 1, MinWindowSize, FALSE)

SelectActionLife == SelectActionDrawing(LifeDraws(Self))

\* train is called with one episode of one iteration
TrainOnce == TrainCall(1, 1, 0)

NextLife == SelectActionLife \/ UpdateEpsilon \/ PreTrain \/ TrainOnce

SpecLife == InitLife /\ [][NextLife]_vars

Min(a, b) == IF a < b THEN a ELSE b
Max(a, b) == IF a < b THEN b ELSE a

\* C17: episode_count never decreases over select_action, update_epsilon,
\* pre_train and train calls; pre_train resets the state of the noise process
\* only (x = mu while no noise is sampled; theta, sigma and mu are kept) and
\* leaves epsilon alone, and it takes episode_count on from the value it had:
\* one step for every warmup iteration of its loop, up to warmup_steps.
Thm_C17_MonotonicCounter ==
    /\ [][episode_count' >= episode_count]_vars
    /\ [][/\ ou_noise'.sigma = ou_noise.sigma
          /\ ou_noise'.theta = ou_noise.theta
          /\ ou_noise'.mu = ou_noise.mu]_vars
    /\ [](pre_last.op = "pre_train" =>
            /\ ~pre_last.eps_changed
            /\ pre_last.samples = 0 => pre_last.noise_at_mu
            /\ pre_last.ec_after
                  = Min(Max(warmup_steps, pre_last.ec_before),
                        pre_last.ec_before + n_samples + ExtraSteps))

\* a second pre_train that starts where select_action calls and the first
\* pre_train left the counter
Wit_C17_MonotonicCounter ==
    /\ pre_train_calls = 2
    /\ pre_last.ec_before > n_samples + ExtraSteps
    /\ pre_last.ec_after = pre_last.ec_before + n_samples + ExtraSteps
    /\ episode_count = pre_last.ec_after
    /\ pre_last.noise_at_mu
    /\ train_last.op = "train"

-----------------------------------------------------------------------------
(* train_critic on a freshly constructed critic                            *)

NumCriticParams == 2    \* parameters of the value estimator
MaxCriticParam == 1     \* a parameter starts in -MaxCriticParam .. MaxCriticParam

CriticParamSets ==
    [1 .. NumCriticParams -> {RatInt(v) : v \in -MaxCriticParam .. MaxCriticParam}]

\* importance-sampling weights of a batch of n experiences
WeightDraws(n) == [1 .. n -> {Zero, One}]

\* TD errors of a batch of n experiences
TdErrorDraws(n) == [1 .. n -> {RatInt(-1), Zero, One}]

\* derivatives of the predicted Q values with respect to the parameters: none,
\* or one parameter alone, small enough for the gradient norm to stay below
\* max_norm
DqDraws ==
    {[j \in 1 .. NumCriticParams |-> Zero]}
    \cup {[j \in 1 .. NumCriticParams |-> IF j = i THEN v ELSE Zero] :
             i \in 1 .. NumCriticParams, v \in {<<-1, 4>>, <<1, 4>>}}

InitCriticSpec ==
    /\ InitAgent(1)
    /\ InitNetworks(<<>>, <<>>)
    /\ InitNormalizer
    /\ \E parameters \in CriticParamSets : InitCritic(parameters)
    /\ \E b \in 1 .. MaxBatchSize : InitTraining(b, 1, MinWindowSize, FALSE)

TrainCritic ==
    /\ critic.step_count = 0
    /\ \E is_weights \in WeightDraws(batch_size),
          td_error \in TdErrorDraws(batch_size), dq \in DqDraws :
         \E res \in {train_critic(critic, td_error, dq, is_weights)} :
           /\ critic' = res.critic
           /\ critic_last' = [op |-> "train_critic", loss |-> res.loss,
                              is_weights |-> is_weights,
                              pre |-> critic.parameters]
           /\ UNCHANGED <<exploreVars, softVars, normVars, trainVars>>

NextCritic == TrainCritic

SpecCritic == InitCriticSpec /\ [][NextCritic]_vars

\* C11: train_critic on a batch whose importance-sampling weights are all
\* zero returns a loss of 0 and leaves every parameter of the value estimator
\* unchanged by the optimizer step.
Cex_C11_ZeroWeights ==
    (critic_last.op = "train_critic"
       /\ \A k \in 1 .. Len(critic_last.is_weights) :
             critic_last.is_weights[k] = Zero) =>
        /\ critic_last.loss = Zero
        /\ \A j \in 1 .. Len(critic.parameters) : critic.lr_steps[j] = Zero

-----------------------------------------------------------------------------
(* soft_update on two networks of NumParams parameters each                *)

NumParams == 2          \* parameters per network
MaxParam == 1           \* a parameter starts in 0 .. MaxParam
MaxSoftUpdates == 2     \* soft_update is called at most this often

ParamSets == [1 .. NumParams -> {RatInt(v) : v \in 0 .. MaxParam}]

\* the mixing coefficients tried: 0, the agent's tau = 0.05, and 1
Taus == {Zero, agent_tau, One}

InitSoft ==
    /\ InitAgent(1)
    /\ \E t \in ParamSets, m \in ParamSets : InitNetworks(t, m)
    /\ InitNormalizer
    /\ InitCritic(<<>>)
    /\ InitTraining(1, 1, MinWindowSize, FALSE)

SoftUpdate ==
    \E tau \in Taus :
        /\ soft_last.calls < MaxSoftUpdates
        /\ target_network' = soft_update(target_network, main_network, tau)
        /\ main_network' = main_network
        /\ networks' = networks
        /\ soft_last' = [op |-> "soft_update", status |-> "ok", err |-> "",
                         tau |-> tau,
                         prev_tau |-> IF soft_last.op = "soft_update"
                                      THEN soft_last.tau ELSE Zero,
                         pre_target |-> target_network,
                         pre_main |-> main_network,
                         calls |-> soft_last.calls + 1]
        /\ UNCHANGED <<exploreVars, normVars, trainVars, learnVars>>

UpdateTargetNetworks ==
    \E res \in {update_target_networks(networks)} :
        /\ networks' = res.attrs
        /\ soft_last' = [soft_last EXCEPT !.op = "update_target_networks",
                                          !.status = res.status,
                                          !.err = res.err]
        /\ UNCHANGED <<target_network, main_network, exploreVars, normVars,
                       trainVars, learnVars>>

NextSoft == SoftUpdate \/ UpdateTargetNetworks

SpecSoft == InitSoft /\ [][NextSoft]_vars

\* C6: soft_update sets every target parameter to
\* tau * online + (1 - tau) * target, pairing the parameters in order, and
\* leaves the online parameters alone; with tau = 1 the target equals the
\* online set, with tau = 0 it is unchanged, and a second call with tau = 1
\* changes nothing.
Thm_C6_SoftUpdate ==
    soft_last.op = "soft_update" =>
        /\ main_network = soft_last.pre_main
        /\ Len(target_network) = NumParams
        /\ \A i \in 1 .. NumParams :
              RatSub(target_network[i], soft_last.pre_target[i])
                = RatMul(soft_last.tau,
                         RatSub(main_network[i], soft_last.pre_target[i]))
        /\ soft_last.tau = One => target_network = main_network
        /\ soft_last.tau = Zero => target_network = soft_last.pre_target
        /\ (soft_last.tau = One /\ soft_last.prev_tau = One /\ soft_last.calls > 1)
              => target_network = soft_last.pre_target

\* C18: update_target_networks on a constructed agent completes without
\* error and soft-updates both target networks: the agent has a target_actor
\* and a target_critic after construction.
Cex_C18_TargetNetworks ==
    soft_last.op = "update_target_networks" =>
        /\ soft_last.status = "ok"
        /\ {"target_actor", "target_critic"} \subseteq DOMAIN networks

\* a tau = 1 update that moved a target differing from the online set
Wit_C6_SoftUpdate ==
    /\ soft_last.op = "soft_update"
    /\ soft_last.tau = One
    /\ soft_last.pre_target # main_network
    /\ target_network = main_network
    /\ main_network[1] # main_network[2]

-----------------------------------------------------------------------------
(* RewardNormalizer over a bounded sequence of rewards                     *)

MaxReward == 3          \* a reward is in 0 .. MaxReward
MaxObservations == 3    \* update is called at most this often

Rewards == {RatInt(v) : v \in 0 .. MaxReward}

InitNorm ==
    /\ InitAgent(1)
    /\ InitNetworks(<<>>, <<>>)
    /\ InitNormalizer
    /\ InitCritic(<<>>)
    /\ InitTraining(1, 1, MinWindowSize, FALSE)

NormUpdate ==
    \E reward \in Rewards :
        /\ normalizer.count < MaxObservations
        /\ normalizer' = normalizer_update(normalizer, reward)
        /\ observations' = Append(observations, reward)
        /\ norm_last' = [NoNormCall EXCEPT !.op = "update", !.x = reward,
                                           !.pre = normalizer]
        /\ UNCHANGED <<exploreVars, softVars, learnVars, trainVars>>

NormGetStats ==
    \E stats \in {normalizer_get_stats(normalizer)} :
        /\ norm_last' = [NoNormCall EXCEPT !.op = "get_stats",
                                           !.mean = stats.mean,
                                           !.std = stats.std,
                                           !.pre = normalizer]
        /\ UNCHANGED <<normalizer, observations, exploreVars, softVars, learnVars, trainVars>>

NormNormalize ==
    \E reward \in Rewards :
        /\ norm_last' = [NoNormCall EXCEPT !.op = "normalize", !.x = reward,
                             !.value = normalizer_normalize(normalizer, reward),
                             !.pre = normalizer]
        /\ UNCHANGED <<normalizer, observations, exploreVars, softVars, learnVars, trainVars>>

NextNorm == NormUpdate \/ NormGetStats \/ NormNormalize

SpecNorm == InitNorm /\ [][NextNorm]_vars

\* the arithmetic mean and the population variance of a sequence, from their
\* definitions
SeqMean(xs) == RatDiv(RatSum(xs), RatInt(Len(xs)))
SeqPopulationVariance(xs) ==
    RatDiv(RatSum([i \in 1 .. Len(xs) |->
                      RatMul(RatSub(xs[i], SeqMean(xs)),
                             RatSub(xs[i], SeqMean(xs)))]),
           RatInt(Len(xs)))

\* C10: get_stats returns the arithmetic mean of the observations, and
\* std = +inf for fewer than 2 observations, else the population standard
\* deviation; normalize(x) returns x when that std is infinite or zero and
\* (x - mean) / std otherwise; neither changes count, mean or M2.
Thm_C10_RewardNormalizer ==
    /\ normalizer.count = Len(observations)
    /\ norm_last.op = "get_stats" =>
          /\ normalizer = norm_last.pre
          /\ norm_last.mean =
                (IF observations = <<>> THEN Zero ELSE SeqMean(observations))
          /\ norm_last.std =
                (IF Len(observations) < 2 THEN StdInf
                 ELSE StdSqrt(SeqPopulationVariance(observations)))
    /\ norm_last.op = "normalize" =>
          /\ normalizer = norm_last.pre
          /\ norm_last.value =
                (IF Len(observations) < 2
                    \/ SeqPopulationVariance(observations) = Zero
                 THEN Raw(norm_last.x)
                 ELSE Scaled(RatSub(norm_last.x, SeqMean(observations)),
                             SeqPopulationVariance(observations)))

\* normalize after the rewards 1, 2, 3: mean 2, variance 2/3
Wit_C10_RewardNormalizer ==
    /\ norm_last.op = "normalize"
    /\ observations = <<RatInt(1), RatInt(2), RatInt(3)>>
    /\ norm_last.x = RatInt(3)
    /\ norm_last.value = Scaled(One, <<2, 3>>)

-----------------------------------------------------------------------------
(* Properties of action selection and of the epsilon schedule (Spec)       *)

\* cash_weight = 1 - noncash.sum(); torch.cat([cash_weight, noncash])
FullAllocation(noncash) == <<RatSub(One, RatSum(noncash))>> \o noncash

NonNegative(v) == \A i \in 1 .. Len(v) : RatLe(Zero, v[i])

\* C1: every non-cash vector returned by select_action (on whichever path
\* returns one) and by train_actor has components >= 0 and a sum <= 1, and the
\* full allocation with the cash complement prepended has components >= 0
\* and sums to 1.
Thm_C1_Simplex ==
    \A k \in 1 .. Len(last.actions) :
        /\ NonNegative(last.actions[k])
        /\ RatLe(RatSum(last.actions[k]), One)
        /\ NonNegative(FullAllocation(last.actions[k]))
        /\ RatSum(FullAllocation(last.actions[k])) = One

\* a uniform draw whose cash component is 0: the non-cash weights sum to 1
Wit_C1_Simplex ==
    /\ last.op = "select_action" /\ last.path = "uniform" /\ last.status = "ok"
    /\ Len(last.actions) = 1
    /\ RatSum(last.actions[1]) = One
    /\ \E i \in 1 .. Len(last.actions[1]) : last.actions[1][i] = Zero

\* C2: in every reachable state epsilon_min <= epsilon <= epsilon_max.
Thm_C2_EpsilonRange ==
    /\ RatLe(epsilon_min, epsilon)
    /\ RatLe(epsilon, epsilon_max)

\* update_epsilon called past the warmup, with epsilon held at its floor
Wit_C2_EpsilonRange ==
    /\ last.op = "update_epsilon"
    /\ episode_count > warmup_steps + 1
    /\ epsilon = epsilon_min

\* exactly warmup_steps calls of update_epsilon, and nothing else, have
\* advanced episode_count from 0
AfterWarmupCalls ==
    /\ hybrid_steps = 0
    /\ episode_count = warmup_steps

\* C3 as stated: after exactly warmup_steps consecutive update_epsilon calls
\* from episode_count = 0 and epsilon = epsilon_max, epsilon is exactly 0.5.
Cex_C3_LandsAtHalf == AfterWarmupCalls => epsilon = Half

\* C3 amended: after exactly warmup_steps consecutive update_epsilon calls from
\* episode_count = 0 and epsilon = epsilon_max, epsilon is
\* epsilon_max - (epsilon_max - 0.5) * (warmup_steps - 1) / warmup_steps,
\* which is above 0.5.
Thm_C3_LastWarmupValue ==
    AfterWarmupCalls =>
        /\ epsilon = RatSub(epsilon_max,
                            RatDiv(RatMul(RatSub(epsilon_max, Half),
                                          RatInt(warmup_steps - 1)),
                                   RatInt(warmup_steps)))
        /\ RatLt(Half, epsilon)

Wit_C3_LastWarmupValue ==
    /\ AfterWarmupCalls
    /\ warmup_steps > 1
    /\ last.op = "update_epsilon"

\* a select_action call with exploration on and mode "hybrid"
HybridCall == last.op = "select_action" /\ last.mode = "hybrid"

\* C12: a hybrid select_action call returns a uniform draw and increments
\* episode_count by exactly 1 if and only if episode_count < warmup_steps at
\* the call, and then leaves epsilon and the noise process alone; otherwise
\* it takes the noise path and leaves episode_count alone; once
\* episode_count >= warmup_steps no call takes the uniform branch again, and
\* the uniform branch never raises episode_count above warmup_steps.
Thm_C12_HybridSwitch ==
    /\ [](HybridCall =>
            /\ (last.path = "uniform")
                  <=> (episode_count - last.ec_delta < warmup_steps)
            /\ last.path = "uniform" =>
                  /\ last.status = "ok"
                  /\ Len(last.actions) = 1
                  /\ last.ec_delta = 1
                  /\ ~last.eps_changed
                  /\ ~last.noise_changed
                  /\ last.samples = 0
                  /\ episode_count <= warmup_steps
            /\ last.path # "uniform" =>
                  /\ last.path = "noise"
                  /\ last.samples = 1
                  /\ last.ec_delta = 0)
    /\ [](hybrid_steps <= warmup_steps)
    /\ [][episode_count >= warmup_steps => hybrid_steps' = hybrid_steps]_vars

\* the hybrid call that follows a completed warmup takes the noise path
Wit_C12_HybridSwitch ==
    /\ HybridCall
    /\ last.path = "noise"
    /\ warmup_steps = MaxWarmup
    /\ hybrid_steps = warmup_steps
    /\ episode_count = warmup_steps

\* C7: given a policy network that returns m_noncash_assets logits, every
\* call of select_action that returns, returns a vector of length
\* m_noncash_assets, and on the noise path the noise sample is as long as the
\* logits.
Cex_C7_ActionLength ==
    (last.op = "select_action" /\ last.logits_len = M_noncash_assets) =>
        /\ last.status = "ok" => Len(last.actions[1]) = M_noncash_assets
        /\ last.path = "noise" => ou_noise.size = last.logits_len

\* C8: a select_action call with exploration on and mode "greedy" completes
\* without an error; on the random branch it returns the non-cash slice of a
\* uniform draw and update_epsilon has run once (episode_count grew by 1), on
\* the other branch it changes neither epsilon nor episode_count.
Cex_C8_GreedyCompletes ==
    /\ (last.op = "select_action" /\ last.path = "greedy_random") =>
          /\ last.status = "ok"
          /\ last.ec_delta = 1
    /\ (last.op = "select_action" /\ last.path = "greedy_deterministic") =>
          /\ last.status = "ok"
          /\ last.ec_delta = 0
          /\ ~last.eps_changed

\* C9: a select_action call on the noise path draws exactly one noise sample,
\* decays sigma and returns an action, and sigma stays positive.
Cex_C9_NoisePathReturns ==
    (last.op = "select_action" /\ last.path = "noise") =>
        /\ last.samples = 1
        /\ last.status = "ok"
        /\ RatLt(Zero, ou_noise.sigma)

====
